---- MODULE Spec2Model ----
(***************************************************************************)
(* Habit Tray: the JSON-backed habit store, the retention pruner and the   *)
(* habit registry of habit_tray.pyw, with the two shell handlers that      *)
(* write files themselves (on_reset, on_retention).                        *)
(*                                                                         *)
(* Calendar dates are proleptic ordinals, as in Python's datetime: day 1   *)
(* is date.min (0001-01-01).  The calendar is scaled down to MaxDay days,  *)
(* so "today - (r-1) days falls before date.min" happens for small r.      *)
(* A canonical ISO string "YYYY-MM-DD" is Date(d); ISO strings of equal    *)
(* width compare as their ordinals do.                                     *)
(***************************************************************************)
EXTENDS Integers, Sequences, FiniteSets, TLC

\* ---------------------------------------------------------------- bounds
MaxDay == 3
MaxRet == 4
MaxLen == 2

\* ---------------------------------------------------------------- values
Names == {"a", "b"}
NameOrder == <<"a", "b">>
NameInputs == {"", " ", "a", " a ", "b"}
DoneInputs == {"a", " a ", "b"}

\* str.strip() on the inputs above
strip(s) == CASE s = " a " -> "a" [] s = " " -> "" [] OTHER -> s

\* one element of a habit's JSON array
Date(d) == [k |-> "date", d |-> d]
BadStr == [k |-> "bad", d |-> 0]
NonStr == [k |-> "num", d |-> 0]

\* a habit's JSON value: an array, or something that is not an array
List(s) == [k |-> "list", v |-> s]
NonList == [k |-> "num", v |-> <<>>]

\* the parsed habit-data document
Obj(m) == [k |-> "obj", m |-> m]
EmptyObj == Obj(<<>>)

\* the value of "retention_days"
Null == [k |-> "null", n |-> 0]
IntVal(n) == [k |-> "int", n |-> n]
BoolVal(b) == [k |-> "bool", n |-> IF b THEN 1 ELSE 0]
StrVal == [k |-> "str", n |-> 0]

CfgObj(rd) == [k |-> "obj", rd |-> rd]
DEFAULT_CFG == Null

Range(s) == {s[i] : i \in DOMAIN s}

VARIABLES dbf, cfgf, today, last

vars == <<dbf, cfgf, today, last>>

\* ------------------------------------------------------ data & config
\* load_cfg: the retention it returns and the settings file it leaves
load_cfg(f) ==
    IF f.k = "absent" THEN [rd |-> DEFAULT_CFG, file |-> CfgObj(DEFAULT_CFG)]
    ELSE IF f.k = "obj"
         THEN [rd |-> IF f.rd.k \in {"int", "bool"} /\ f.rd.n >= 1
                      THEN f.rd ELSE Null,
               file |-> f]
         ELSE [rd |-> DEFAULT_CFG, file |-> f]

\* load_db: the document it returns, the file it leaves, whether it wrote
load_db(f) ==
    IF f.k = "absent" THEN [db |-> EmptyObj, file |-> EmptyObj, wrote |-> TRUE]
    ELSE IF f.k = "corrupt" THEN [db |-> EmptyObj, file |-> f, wrote |-> FALSE]
    ELSE [db |-> f, file |-> f, wrote |-> FALSE]

\* (variant: the comparison with the cutoff is strict)
KeepsAfter(e, cutoff) == e.k = "date" /\ e.d > cutoff

\* date.fromisoformat(s) succeeds and the date is on or after the cutoff
Keeps(e, cutoff) == e.k = "date" /\ e.d >= cutoff

\* (variant: a habit whose list empties is dropped from the store)
KeptNonEmpty(m, cutoff) ==
    LET live == {h \in DOMAIN m : \E i \in DOMAIN m[h].v : Keeps(m[h].v[i], cutoff)}
    IN  [h \in live |-> List(SelectSeq(m[h].v, LAMBDA e : Keeps(e, cutoff)))]

\* the loop over db.items(): every habit keeps the entries that pass
Kept(m, cutoff) ==
    [h \in DOMAIN m |-> List(SelectSeq(m[h].v, LAMBDA e : Keeps(e, cutoff)))]

prune_inplace(db, rd, now) ==
    IF rd.k = "null" \/ rd.n < 1
    THEN [db |-> db, changed |-> FALSE, raised |-> FALSE]
    ELSE LET cutoff == now - (rd.n - 1) IN
         IF cutoff < 1
         THEN [db |-> db, changed |-> FALSE, raised |-> TRUE]
         ELSE IF db.k # "obj"
         THEN [db |-> db, changed |-> FALSE, raised |-> TRUE]
         ELSE IF \E h \in DOMAIN db.m :
                    \/ db.m[h].k # "list"
                    \/ \E i \in DOMAIN db.m[h].v : db.m[h].v[i].k = "num"
         THEN [db |-> db, changed |-> FALSE, raised |-> TRUE]
         ELSE [db |-> Obj(Kept(db.m, cutoff)),
               changed |-> \E h \in DOMAIN db.m : \E i \in DOMAIN db.m[h].v :
                               ~Keeps(db.m[h].v[i], cutoff),
               raised |-> FALSE]


save_db(db) == db

save_cfg(rd) == CfgObj(rd)

\* what one call leaves behind and hands back
Outcome(f, c, raised, wrote, changed, appended, ret, names) ==
    [dbf |-> f, cfgf |-> c, raised |-> raised, wrote |-> wrote,
     changed |-> changed, appended |-> appended, ret |-> ret, names |-> names]

\* (variant: the pruned store is never written back)
apply_retention_unsaved(f, c, now) ==
    LET C == load_cfg(c)
        L == load_db(f)
        P == prune_inplace(L.db, C.rd, now)
    IN  Outcome(L.file, C.file, P.raised, L.wrote, P.changed, FALSE, FALSE, <<>>)

\* (variant: the store is written back whether or not anything changed)
apply_retention_eager(f, c, now) ==
    LET C == load_cfg(c)
        L == load_db(f)
        P == prune_inplace(L.db, C.rd, now)
    IN  IF P.raised
        THEN Outcome(L.file, C.file, TRUE, L.wrote, FALSE, FALSE, FALSE, <<>>)
        ELSE Outcome(save_db(P.db), C.file, FALSE, TRUE, P.changed, FALSE, FALSE, <<>>)

apply_retention(f, c, now) ==
    LET C == load_cfg(c)
        L == load_db(f)
        P == prune_inplace(L.db, C.rd, now)
    IN  IF P.raised
        THEN Outcome(L.file, C.file, TRUE, L.wrote, FALSE, FALSE, FALSE, <<>>)
        ELSE IF P.changed
        THEN Outcome(save_db(P.db), C.file, FALSE, TRUE, TRUE, FALSE, FALSE, <<>>)
        ELSE Outcome(L.file, C.file, FALSE, L.wrote, FALSE, FALSE, FALSE, <<>>)

\* ---------------------------------------------------------------- domain
\* sorted(db.keys())
habits(f) ==
    LET L == load_db(f) IN
    IF L.db.k # "obj"
    THEN Outcome(L.file, 0, TRUE, L.wrote, FALSE, FALSE, FALSE, <<>>)
    ELSE Outcome(L.file, 0, FALSE, L.wrote, FALSE, FALSE, FALSE,
                 SelectSeq(NameOrder, LAMBDA n : n \in DOMAIN L.db.m))

is_done_today(name, f, now) ==
    LET L == load_db(f) IN
    IF L.db.k # "obj"
    THEN Outcome(L.file, 0, TRUE, L.wrote, FALSE, FALSE, FALSE, <<>>)
    ELSE LET v == IF name \in DOMAIN L.db.m THEN L.db.m[name] ELSE List(<<>>) IN
         IF v.k # "list"
         THEN Outcome(L.file, 0, TRUE, L.wrote, FALSE, FALSE, FALSE, <<>>)
         ELSE Outcome(L.file, 0, FALSE, L.wrote, FALSE, FALSE,
                      Date(now) \in Range(v.v), <<>>)

\* (variant: the name is bound to a new empty list even when it exists)
overwrite(m, name) ==
    [h \in DOMAIN m \cup {name} |-> IF h = name THEN List(<<>>) ELSE m[h]]

\* dict.setdefault(name, [])
setdefault(m, name) ==
    IF name \in DOMAIN m THEN m
    ELSE [h \in DOMAIN m \cup {name} |-> IF h = name THEN List(<<>>) ELSE m[h]]

add_habit(raw, f, c, now) ==
    LET name == strip(raw) IN
    IF name = ""
    THEN Outcome(f, c, FALSE, FALSE, FALSE, FALSE, FALSE, <<>>)
    ELSE LET L == load_db(f) IN
         IF L.db.k # "obj"
         THEN Outcome(L.file, c, TRUE, L.wrote, FALSE, FALSE, FALSE, <<>>)
         ELSE LET C == load_cfg(c)
                  P == prune_inplace(Obj(setdefault(L.db.m, name)), C.rd, now)
              IN  IF P.raised
                  THEN Outcome(L.file, C.file, TRUE, L.wrote, FALSE, FALSE, FALSE, <<>>)
                  ELSE Outcome(save_db(P.db), C.file, FALSE, TRUE, P.changed,
                               FALSE, FALSE, <<>>)

\* x < y on the strings the entries stand for; an unparsable string such as
\* "n/a" sorts after every ISO date
Before(x, y) == x.k = "date" /\ (y.k = "bad" \/ x.d < y.d)

RECURSIVE Insert(_, _)
Insert(x, s) ==
    IF s = <<>> THEN <<x>>
    ELSE IF Before(Head(s), x) THEN <<Head(s)>> \o Insert(x, Tail(s))
    ELSE <<x>> \o s

\* list.sort()
RECURSIVE Sort(_)
Sort(s) == IF s = <<>> THEN <<>> ELSE Insert(Head(s), Sort(Tail(s)))

\* (variant: today is taken to be missing from the list)
never_there(dates, now) == FALSE

\* today in db[name]
has_today(dates, now) == Date(now) \in Range(dates)

mark_done(name, f, c, now) ==
    LET L == load_db(f) IN
    IF L.db.k = "num"
    THEN Outcome(L.file, c, TRUE, L.wrote, FALSE, FALSE, FALSE, <<>>)
    ELSE IF L.db.k = "list" \/ name \notin DOMAIN L.db.m
    THEN Outcome(L.file, c, FALSE, L.wrote, FALSE, FALSE, FALSE, <<>>)
    ELSE LET v == L.db.m[name] IN
         IF v.k # "list"
         THEN Outcome(L.file, c, TRUE, L.wrote, FALSE, FALSE, FALSE, <<>>)
         ELSE LET fresh == ~has_today(v.v, now) IN
              IF fresh /\ \E i \in DOMAIN v.v : v.v[i].k = "num"
              THEN Outcome(L.file, c, TRUE, L.wrote, FALSE, FALSE, FALSE, <<>>)
              ELSE LET dates == IF fresh THEN Sort(Append(v.v, Date(now))) ELSE v.v
                       C == load_cfg(c)
                       P == prune_inplace(
                                Obj([L.db.m EXCEPT ![name] = List(dates)]), C.rd, now)
                   IN  IF P.raised
                       THEN Outcome(L.file, C.file, TRUE, L.wrote, FALSE, FALSE,
                                    FALSE, <<>>)
                       ELSE Outcome(save_db(P.db), C.file, FALSE, TRUE, P.changed,
                                    fresh, FALSE, <<>>)

\* ------------------------------------------------------------------ tray
\* rebuild_menu reads the store and the settings; it raises when they do
rebuild_menu(f, c, now) ==
    LET H == habits(f) IN
    IF H.raised THEN [dbf |-> H.dbf, cfgf |-> c, raised |-> TRUE]
    ELSE IF \E i \in DOMAIN H.names : is_done_today(H.names[i], H.dbf, now).raised
    THEN [dbf |-> H.dbf, cfgf |-> c, raised |-> TRUE]
    ELSE [dbf |-> H.dbf, cfgf |-> load_cfg(c).file, raised |-> FALSE]

on_reset(yes, f, c, now) ==
    IF ~yes THEN Outcome(f, c, FALSE, FALSE, FALSE, FALSE, FALSE, <<>>)
    ELSE LET M == rebuild_menu(save_db(EmptyObj), c, now) IN
         Outcome(M.dbf, M.cfgf, M.raised, TRUE, FALSE, FALSE, FALSE, <<>>)

\* what the retention prompt returns: cancelled, text that int() rejects,
\* or the text of an integer
Cancelled == [k |-> "none", n |-> 0]
Text == [k |-> "text", n |-> 0]
Digits(n) == [k |-> "int", n |-> n]
RetInputs == {Cancelled, Text} \cup {Digits(n) : n \in -1..MaxRet}

on_retention(val, f, c, now) ==
    LET C == load_cfg(c) IN
    IF val.k # "int" \/ val.n < 0
    THEN Outcome(f, C.file, FALSE, FALSE, FALSE, FALSE, FALSE, <<>>)
    ELSE LET rd == IF val.n >= 1 THEN IntVal(val.n) ELSE Null
             A == apply_retention(f, save_cfg(rd), now)
         IN  IF A.raised THEN A
             ELSE LET M == rebuild_menu(A.dbf, A.cfgf, now) IN
                  Outcome(M.dbf, M.cfgf, M.raised, A.wrote, A.changed, FALSE,
                          FALSE, <<>>)

\* --------------------------------------------------------------- actions
\* the call that ran last: what it was given and what it did
Did(op, name, val, r) ==
    [op |-> op, name |-> name, val |-> val, raised |-> r.raised,
     wrote |-> r.wrote, changed |-> r.changed, appended |-> r.appended,
     ret |-> r.ret, names |-> r.names]

Quiet == Outcome(0, 0, FALSE, FALSE, FALSE, FALSE, FALSE, <<>>)

AddHabitOf(raw) ==
    LET r == add_habit(raw, dbf, cfgf, today) IN
    /\ dbf' = r.dbf
    /\ cfgf' = r.cfgf
    /\ last' = Did("add_habit", raw, Cancelled, r)
    /\ UNCHANGED today

AddHabit == \E raw \in NameInputs : AddHabitOf(raw)

MarkDoneOf(name) ==
    LET r == mark_done(name, dbf, cfgf, today) IN
    /\ dbf' = r.dbf
    /\ cfgf' = r.cfgf
    /\ last' = Did("mark_done", name, Cancelled, r)
    /\ UNCHANGED today

MarkDone == \E name \in DoneInputs : MarkDoneOf(name)

ApplyRetention ==
    LET r == apply_retention(dbf, cfgf, today) IN
    /\ dbf' = r.dbf
    /\ cfgf' = r.cfgf
    /\ last' = Did("apply_retention", "", Cancelled, r)
    /\ UNCHANGED today

ListHabits ==
    LET r == habits(dbf) IN
    /\ dbf' = r.dbf
    /\ last' = Did("habits", "", Cancelled, r)
    /\ UNCHANGED <<cfgf, today>>

IsDoneTodayOf(name) ==
    LET r == is_done_today(name, dbf, today) IN
    /\ dbf' = r.dbf
    /\ last' = Did("is_done_today", name, Cancelled, r)
    /\ UNCHANGED <<cfgf, today>>

IsDoneToday == \E name \in DoneInputs : IsDoneTodayOf(name)

OnResetOf(yes) ==
    LET r == on_reset(yes, dbf, cfgf, today) IN
    /\ dbf' = r.dbf
    /\ cfgf' = r.cfgf
    /\ last' = Did(IF yes THEN "reset" ELSE "reset_declined", "", Cancelled, r)
    /\ UNCHANGED today

OnReset == \E yes \in BOOLEAN : OnResetOf(yes)

OnRetentionOf(val) ==
    LET r == on_retention(val, dbf, cfgf, today) IN
    /\ dbf' = r.dbf
    /\ cfgf' = r.cfgf
    /\ last' = Did("on_retention", "", val, r)
    /\ UNCHANGED today

OnRetention == \E val \in RetInputs : OnRetentionOf(val)

\* midnight passes: date.today() moves on one day
AdvanceDay ==
    /\ today < MaxDay
    /\ today' = today + 1
    /\ last' = Did("midnight", "", Cancelled, Quiet)
    /\ UNCHANGED <<dbf, cfgf>>

Next ==
    \/ AddHabit
    \/ MarkDone
    \/ ApplyRetention
    \/ ListHabits
    \/ IsDoneToday
    \/ OnReset
    \/ OnRetention
    \/ AdvanceDay

\* a fresh install once main() has run its start-up apply_retention():
\* both files exist and hold the defaults
Init ==
    /\ dbf = EmptyObj
    /\ cfgf = CfgObj(DEFAULT_CFG)
    /\ today \in 1..MaxDay
    /\ last = Did("main", "", Cancelled, Quiet)

Spec == Init /\ [][Next]_vars

\* ------------------------------------------- files written by other hands
Entries == {Date(d) : d \in 1..MaxDay} \cup {BadStr, NonStr}
Lists == UNION {[1..n -> Entries] : n \in 0..MaxLen}
Values == {List(s) : s \in Lists} \cup {NonList}
Absent == [k |-> "absent", m |-> <<>>]
Unparsable == [k |-> "corrupt", m |-> <<>>]
TopList == [k |-> "list", m |-> <<>>]
TopNum == [k |-> "num", m |-> <<>>]
DbFiles ==
    {Absent, Unparsable, TopList, TopNum, EmptyObj}
        \cup {Obj([h \in {"a"} |-> v]) : v \in Values}
CfgFiles ==
    {[k |-> "absent", rd |-> Null], [k |-> "corrupt", rd |-> Null],
     [k |-> "nonobj", rd |-> Null]}
        \cup {CfgObj(rd) : rd \in {Null, StrVal, BoolVal(TRUE), BoolVal(FALSE)}
                                      \cup {IntVal(n) : n \in -1..MaxRet}}

\* the program started over whatever the two files hold
InitAny ==
    /\ dbf \in DbFiles
    /\ cfgf \in CfgFiles
    /\ today \in 1..MaxDay
    /\ last = Did("main", "", Cancelled, Quiet)

SpecAny == InitAny /\ [][Next]_vars

\* ---------------------------------------------------------------- claims
\* the store as the program reads it, and what it holds
Stored == load_db(dbf).db
KnownNames(f) == IF load_db(f).db.k = "obj" THEN DOMAIN load_db(f).db.m ELSE {}
DatesOf(f, h) ==
    IF h \in KnownNames(f) /\ load_db(f).db.m[h].k = "list"
    THEN load_db(f).db.m[h].v ELSE <<>>
Retention == load_cfg(cfgf).rd

\* every value is a list and every entry of it a string
WellTyped(db) ==
    /\ db.k = "obj"
    /\ \A h \in DOMAIN db.m :
           /\ db.m[h].k = "list"
           /\ \A i \in DOMAIN db.m[h].v : db.m[h].v[i].k # "num"

\* the entries of s that are dates on or after the cutoff, in order
InWindow(s, cutoff) == SelectSeq(s, LAMBDA e : e.k = "date" /\ e.d >= cutoff)

\* C1: for every store, every retention r >= 1 and every today,
\* prune_inplace(db, r) returns, leaves in every habit exactly the dates on
\* or after today - (r-1) in their order (dropping unparsable strings), and
\* returns true exactly when some entry was removed.
C1_PruneContract ==
    \A r \in 1..MaxRet :
        LET P == prune_inplace(Stored, IntVal(r), today) IN
        WellTyped(Stored) =>
            /\ ~P.raised
            /\ DOMAIN P.db.m = DOMAIN Stored.m
            /\ \A h \in DOMAIN Stored.m :
                   P.db.m[h].v = InWindow(Stored.m[h].v, today - (r - 1))
            /\ P.changed <=> \E h \in DOMAIN Stored.m :
                                 Len(P.db.m[h].v) < Len(Stored.m[h].v)

C3_DoneAfterMark ==
    /\ [](\A n \in DoneInputs :
              n \notin KnownNames(dbf) =>
                  /\ ~is_done_today(n, dbf, today).raised
                  /\ ~is_done_today(n, dbf, today).ret)
    /\ [][\A n \in DoneInputs :
              (MarkDoneOf(n) /\ n \in KnownNames(dbf) /\ ~last'.raised)
                  => /\ ~is_done_today(n, dbf', today').raised
                     /\ is_done_today(n, dbf', today').ret]_vars

\* mark_done inserted today under a bounded retention whose prune removed
\* older dates
C3_Witness ==
    /\ last.op = "mark_done"
    /\ last.appended
    /\ last.changed
    /\ Retention.k = "int"
    /\ is_done_today(last.name, dbf, today).ret

\* C4: the set of habit names changes only by add_habit of a name that is
\* non-empty once trimmed (which adds that name) and by a full reset (which
\* empties it); mark_done of an unknown name leaves the store as it was.
C4_NamesFrame ==
    [][/\ \/ KnownNames(dbf') = KnownNames(dbf)
          \/ /\ last'.op = "add_habit"
             /\ strip(last'.name) # ""
             /\ KnownNames(dbf') = KnownNames(dbf) \cup {strip(last'.name)}
          \/ /\ last'.op = "reset"
             /\ KnownNames(dbf') = {}
       /\ last'.op \in {"mark_done", "apply_retention", "on_retention",
                        "habits", "is_done_today"}
              => KnownNames(dbf') = KnownNames(dbf)
       /\ \A n \in DoneInputs :
              (MarkDoneOf(n) /\ n \notin KnownNames(dbf)) => dbf' = dbf]_vars

\* a prune inside mark_done emptied another habit's list, and both names stay
C4_Witness ==
    /\ last.op = "mark_done"
    /\ last.changed
    /\ KnownNames(dbf) = Names
    /\ \E h \in Names : DatesOf(dbf, h) = <<>>

RegistryOps ==
    {"habits", "is_done_today", "add_habit", "mark_done", "apply_retention"}

\* C5: whatever the two files hold, no registry operation lets an error
\* reach its caller.
C5_NoErrorReachesCaller == last.op \in RegistryOps => ~last.raised

\* C6: for every store and every retention setting, a second prune_inplace
\* on the same day returns false and leaves the store the first one left.
C6_PruneIdempotent ==
    \A rd \in {Null} \cup {IntVal(r) : r \in 1..MaxRet} :
        LET P1 == prune_inplace(Stored, rd, today)
            P2 == prune_inplace(P1.db, rd, today)
        IN  WellTyped(Stored) =>
                /\ ~P1.raised
                /\ ~P2.raised
                /\ ~P2.changed
                /\ P2.db = P1.db

\* C7 as stated: add_habit of a name that already exists is a no-op on that
\* habit's dates.
C7_ReAddIsNoOp ==
    [][\A raw \in NameInputs :
           (AddHabitOf(raw) /\ strip(raw) \in KnownNames(dbf))
               => DatesOf(dbf', strip(raw)) = DatesOf(dbf, strip(raw))]_vars

\* C7 amended: add_habit of a name that already exists leaves that habit
\* exactly its dates on or after the retention cutoff (all of them when the
\* retention is unbounded), and add_habit(n) straight after add_habit(n)
\* leaves the dates of n as the first call left them.
C7_ReAddKeepsHistory ==
    [][\A raw \in NameInputs :
           (AddHabitOf(raw) /\ strip(raw) \in KnownNames(dbf))
               => /\ strip(raw) \in KnownNames(dbf')
                  /\ DatesOf(dbf', strip(raw)) =
                         IF Retention.k = "null" THEN DatesOf(dbf, strip(raw))
                         ELSE InWindow(DatesOf(dbf, strip(raw)),
                                       today - (Retention.n - 1))
                  /\ (last.op = "add_habit" /\ strip(last.name) = strip(raw))
                         => DatesOf(dbf', strip(raw)) = DatesOf(dbf, strip(raw))]_vars

\* add_habit of an existing name pruned an old date and kept a recent one
C7_Witness ==
    /\ last.op = "add_habit"
    /\ ~last.raised
    /\ last.changed
    /\ DatesOf(dbf, strip(last.name)) # <<>>

\* C8: after the retention is set to d >= 1 the settings file holds d and no
\* stored date is earlier than today - (d-1); a negative or non-numeric entry
\* leaves the settings file and the store as they were.
C8_SetRetention ==
    [][\A val \in RetInputs :
           OnRetentionOf(val) =>
               /\ (val.k = "int" /\ val.n >= 1) =>
                      /\ cfgf' = CfgObj(IntVal(val.n))
                      /\ \A h \in KnownNames(dbf') :
                             \A i \in DOMAIN DatesOf(dbf', h) :
                                 DatesOf(dbf', h)[i].d >= today - (val.n - 1)
               /\ (val.k = "text" \/ (val.k = "int" /\ val.n < 0)) =>
                      /\ cfgf' = cfgf
                      /\ dbf' = dbf]_vars

\* a retention was accepted and its prune removed dates from the store
C8_Witness ==
    /\ last.op = "on_retention"
    /\ last.val.k = "int"
    /\ last.val.n >= 1
    /\ last.changed
    /\ cfgf = CfgObj(IntVal(last.val.n))

\* a stored "retention_days" that is a positive integer
PositiveInt(f) == f.k = "obj" /\ f.rd.k = "int" /\ f.rd.n >= 1

\* every entry of s occurs in t
Within(s, t) == \A i \in DOMAIN s : \E j \in DOMAIN t : t[j] = s[i]

\* C9: set_retention(0) stores "unbounded"; a stored retention that is not a
\* positive integer is loaded as unbounded; while the setting is unbounded,
\* add_habit, mark_done and apply_retention remove no date.
C9_UnboundedKeepsAll ==
    /\ [](~PositiveInt(cfgf) => Retention = Null)
    /\ [][/\ OnRetentionOf(Digits(0)) => cfgf' = CfgObj(Null)
          /\ (Retention = Null
                  /\ last'.op \in {"add_habit", "mark_done", "apply_retention"})
                 => \A h \in KnownNames(dbf) :
                        Within(DatesOf(dbf, h), DatesOf(dbf', h))]_vars

\* C10: apply_retention writes the habit-data file exactly when its prune
\* removes a date: otherwise the file is not written and keeps its content.
C10_WriteOnlyIfChanged ==
    [][ApplyRetention =>
           LET cutoff == today - (Retention.n - 1)
               removes == /\ Retention.k = "int"
                          /\ \E h \in KnownNames(dbf) :
                                 \E i \in DOMAIN DatesOf(dbf, h) :
                                     DatesOf(dbf, h)[i].d < cutoff
           IN  /\ ~removes => (~last'.wrote /\ dbf' = dbf)
               /\ removes =>
                      /\ last'.wrote
                      /\ KnownNames(dbf') = KnownNames(dbf)
                      /\ \A h \in KnownNames(dbf) :
                             DatesOf(dbf', h) = InWindow(DatesOf(dbf, h), cutoff)]_vars

\* apply_retention found aged-out dates and wrote the pruned store
C10_Witness ==
    /\ last.op = "apply_retention"
    /\ last.changed
    /\ last.wrote

====
